---- MODULE Spec2Model ----
(***************************************************************************)
(* Size-constrained quality search of the image batch compressor.          *)
(*                                                                         *)
(* The repository holds five script variants of the same tool:             *)
(*   processImage            in-memory descent, step 5      (part_000)     *)
(*   processFile (try/catch) temp-file descent, step 10     (part_001)     *)
(*   processFile (break)     temp-file descent, step 10     (part_002)     *)
(*   processFile (loop)      temp-file descent, step 10     (part_003)     *)
(*   findOptimalCompression  similarity-gated, two passes   (index.js)     *)
(* One state machine models all of them; the variable "variant" says which *)
(* script is running.  The encoder (sharp) and the similarity scorer       *)
(* (ssim.js) are external: every input image carries the sizes and scores  *)
(* they would return for it, and the call at which they would fail.        *)
(***************************************************************************)
EXTENDS Integers, Sequences, FiniteSets, TLC

\* ------------------------------------------------------------- bounds ----
MaxFiles == 2
MaxRequests == 22

\* ------------------------------------------------- program constants ----
V_IMAGE == "processImage"
V_TRY == "processFile_try"
V_BREAK == "processFile_break"
V_LOOP == "processFile_loop"
V_SSIM == "findOptimalCompression"

StepVariants == {V_TRY, V_BREAK, V_LOOP}
SizeOnlyVariants == {V_IMAGE} \cup StepVariants
Variants == SizeOnlyVariants \cup {V_SSIM}

TARGET_SIZE_BYTES == 2 * 1024 * 1024
maxSizeArg == 50000
\* minSSIM = 0.9, similarity scores are kept in thousandths
minSSIM == 900
\* tolerance = 0.1, kept in tenths
toleranceTenths == 1
qualityBoundLow == 50
qualityBoundHigh == 90

VARIABLES variant, tree, img, fs, task, requested, mainPc, cursor,
          summaryStats, log, totalFilesToProcess, processedFilesCount,
          touched, race, run, first

vars == <<variant, tree, img, fs, task, requested, mainPc, cursor,
          summaryStats, log, totalFilesToProcess, processedFilesCount,
          touched, race, run, first>>

\* ------------------------------------------------------ paths, names ----
\* A directory entry is <<stem, ext>>; an input file is <<dir, stem, ext>>;
\* a path of the target tree is <<dir, stem, ext, tag, q>>, which stands for
\* target/<dir>/<stem>.<ext><tag><q> (q = 0: no number in the name).
DirIds(tr, d) == [i \in 1..Len(tr[d]) |-> <<d, tr[d][i][1], tr[d][i][2]>>]

WalkOf(tr) == IF Len(tr) = 1 THEN DirIds(tr, 1) ELSE DirIds(tr, 1) \o DirIds(tr, 2)

FilesOf(tr) == {WalkOf(tr)[i] : i \in 1..Len(WalkOf(tr))}

Walk == WalkOf(tree)

Files == FilesOf(tree)

FilesIn(d) == {f \in Files : f[1] = d}

ImageExts(v) ==
  IF v = V_TRY
  THEN {"jpg", "jpeg", "png", "webp", "tiff", "gif", "svg", "avif", "heif", "heic"}
  ELSE {"jpg", "jpeg", "png"}

\* processImage is applied to every file entry, the others filter by extension
IsImage(v, f) == v = V_IMAGE \/ f[3] \in ImageExts(v)

OutputPath(v, f) ==
  IF v = V_SSIM THEN <<f[1], f[2], "jpeg", "", 0>> ELSE <<f[1], f[2], f[3], "", 0>>

TrialPath(v, out, phase, q) ==
  IF v = V_SSIM
  THEN <<out[1], out[2], out[3], IF phase = "strict" THEN "_temp_" ELSE "_fallback_", q>>
  ELSE <<out[1], out[2], out[3], "_temp", 0>>

IsTrialPath(p) == p[4] # ""

\* ------------------------------------------------------- file system ----
\* fs maps the existing paths of the target tree to their content:
\* [src: the input the bytes come from, q: encoder quality (0: the original
\* bytes), size: byte size].
WriteFile(f, p, c) == [x \in DOMAIN f \cup {p} |-> IF x = p THEN c ELSE f[x]]

Unlink(f, p) == [x \in DOMAIN f \ {p} |-> f[x]]

\* a rename that leaves an existing destination, and the source, in place
Rename_NoReplace(f, from, to) ==
  IF to \in DOMAIN f THEN f
  ELSE [x \in (DOMAIN f \ {from}) \cup {to} |-> IF x = to THEN f[from] ELSE f[x]]

Rename(f, from, to) ==
  [x \in (DOMAIN f \ {from}) \cup {to} |-> IF x = to THEN f[from] ELSE f[x]]

Original(i, src) == [src |-> src, q |-> 0, size |-> i[src].size]

CopyFile(f, i, src, to) == WriteFile(f, to, Original(i, src))

\* ----------------------------------------------- external collaborators --
\* sharp(...).jpeg({quality}): byte size of the encode of input src
EncSize(i, src, q) == i[src].base + i[src].slope * q

Encoded(i, src, q) == [src |-> src, q |-> q, size |-> EncSize(i, src, q)]

\* ssim(original, compressed).mssim in thousandths; a candidate made from
\* another image has nothing in common with the original
Ssim(i, src, c) == IF c.src = src THEN i[src].sbase + i[src].sslope * c.q ELSE 0

\* the call (encode, stat, rename, ssim) that fails for this input, and the
\* quality at which it does
Fails(i, src, op, q) == i[src].failOp = op /\ i[src].failAt = q

\* sharp rejects a quality outside 1..100 before it encodes anything
ValidQuality(q) == q >= 1 /\ q <= 100


\* ------------------------------------------------------------ inputs ----
EmptyFn == [x \in {} |-> 0]

NoFile == <<0, "", "">>

\* the entries a directory listing may hold, in listing order
NameList == << <<"a", "jpg">>, <<"a", "png">>, <<"b", "jpeg">>, <<"n", "txt">> >>

RECURSIVE Listing(_)
Listing(S) ==
  IF S = {} THEN << >>
  ELSE LET m == CHOOSE x \in S : \A y \in S : x <= y
       IN  <<NameList[m]>> \o Listing(S \ {m})

Listings(n) ==
  {Listing(S) : S \in {T \in SUBSET (1..Len(NameList)) : T # {} /\ Cardinality(T) <= n}}

\* at most MaxFiles files: a root directory alone, or a root directory with
\* a sub-directory of one file
Trees == {<<r>> : r \in Listings(MaxFiles)}
           \cup {<<r, <<NameList[1]>> >> : r \in Listings(MaxFiles - 1)}

SingleFileTrees == {<<r>> : r \in Listings(1)}

Profile(size, enc, sim, fail) ==
  [size |-> size, base |-> enc[1], slope |-> enc[2], sbase |-> sim[1],
   sslope |-> sim[2], failOp |-> fail[1], failAt |-> fail[2]]

NoFailure == <<"none", 0>>

\* inputs of one search: sizes around the ceiling, encoders that reach the
\* ceiling on and off the probed grid or never, and one failing call
SearchProfiles(v) ==
  IF v = V_SSIM
  THEN {Profile(s, e, m, x) :
          s \in {30000, 5000000},
          e \in {<<0, 640>>, <<0, 500>>, <<0, 2000>>, <<52000, 0>>},
          m \in {<<50, 10>>, <<0, 10>>, <<500, 0>>, <<950, 0>>},
          x \in {NoFailure} \cup ({"encode", "stat", "rename", "ssim"} \X {90, 55})}
  ELSE {Profile(s, e, <<0, 0>>, x) :
          s \in {500000, TARGET_SIZE_BYTES, 5000000},
          e \in {<<0, 50000>>, <<32, 26214>>, <<3000000, 0>>, <<0, 20000>>,
                 <<3000000, -10000>>},
          x \in {NoFailure} \cup ({"encode", "stat", "rename"} \X {90, 40})}

\* inputs of a batch: a file under the ceiling, one that compresses at the
\* first probe, one that never fits, one whose encode fails
BatchProfiles(v) ==
  IF v = V_SSIM
  THEN {Profile(30000, <<0, 500>>, <<0, 10>>, NoFailure),
        Profile(5000000, <<0, 2000>>, <<500, 0>>, NoFailure),
        Profile(5000000, <<0, 500>>, <<0, 10>>, <<"encode", 90>>)}
  ELSE {Profile(500000, <<0, 20000>>, <<0, 0>>, NoFailure),
        Profile(5000000, <<0, 20000>>, <<0, 0>>, NoFailure),
        Profile(5000000, <<3000000, 0>>, <<0, 0>>, NoFailure),
        Profile(5000000, <<0, 20000>>, <<0, 0>>, <<"encode", 90>>)}

\* ------------------------------------------------------------- state ----
NewTask ==
  [pc |-> "idle", quality |-> 0, success |-> FALSE, compressedSize |-> 0,
   currentSSIM |-> 0, phase |-> "strict", outcome |-> "none"]

NewStats ==
  [totalProcessed |-> 0, compressed |-> 0, copied |-> 0, errors |-> 0,
   errorDetails |-> EmptyFn]

NoResult == [task |-> EmptyFn, fs |-> EmptyFn]

InitState(tr) ==
  /\ fs = EmptyFn
  /\ task = [f \in FilesOf(tr) |-> NewTask]
  /\ requested = [f \in FilesOf(tr) |-> << >>]
  /\ mainPc = "start"
  /\ cursor = 1
  /\ summaryStats = NewStats
  /\ log = << >>
  /\ totalFilesToProcess = 0
  /\ processedFilesCount = 0
  /\ touched = [f \in FilesOf(tr) |-> {}]
  /\ race = {}
  /\ run = 1
  /\ first = NoResult

Init ==
  /\ variant \in Variants
  /\ tree \in Trees
  /\ img \in [FilesOf(tree) -> BatchProfiles(variant)]
  /\ InitState(tree)

InitSearch ==
  /\ variant \in Variants
  /\ tree \in SingleFileTrees
  /\ img \in [FilesOf(tree) -> SearchProfiles(variant)]
  /\ InitState(tree)

MaxSize(v) == IF v = V_SSIM THEN maxSizeArg ELSE TARGET_SIZE_BYTES

Terminated(f) == task[f].pc \in {"done", "rejected"}

InFlight(f) == task[f].pc \notin {"idle", "done", "rejected"}


\* ------------------------------------------------- logging, counters ----
Logged(l, msg, f) == Append(l, <<msg, f>>)

\* summaryStats.errorDetails[errorType].push(inputPath)
PushError(ed, errorType, f) ==
  [x \in DOMAIN ed \cup {errorType} |->
     IF x = errorType
     THEN (IF errorType \in DOMAIN ed THEN Append(ed[errorType], f) ELSE <<f>>)
     ELSE ed[x]]

\* part_003 keeps no summary counters
Counted(v, st, field) ==
  IF v \in {V_TRY, V_BREAK} THEN [st EXCEPT ![field] = @ + 1] ELSE st

\* ------------------------------------------ processFile (step variants) --
\* "if (size < maxSize)": the input needs no compression
UnderTarget(size, maxSize) == size < maxSize

\* the encode is kept: "compressedSize <= maxSize" (processFile),
\* "data.length < 2 * 1024 * 1024" (processImage)
WithinTarget(v, size, maxSize) ==
  IF v = V_IMAGE THEN size < maxSize ELSE size <= maxSize

\* the while condition of the descent
LoopCond(v, t, maxSize) ==
  IF v = V_TRY
  THEN t.quality > 0 /\ ~t.success
  ELSE t.quality > 0 /\ t.compressedSize > maxSize

\* the test that guards the copy of the original after the loop
NeedsFallbackCopy(v, t) ==
  IF v = V_TRY THEN t.quality = 0 /\ ~t.success ELSE t.quality = 0

\* a descent of processFile in steps of 20
QualityStep_Coarse(v) == IF v = V_IMAGE THEN 5 ELSE 20

QualityStep(v) == IF v = V_IMAGE THEN 5 ELSE 10

\* where processFile goes once the loop is left
AfterLoop(v, t) ==
  IF NeedsFallbackCopy(v, t) THEN [t EXCEPT !.pc = "fallback"]
  ELSE [t EXCEPT !.pc = "done"]

LoopOrLeave(v, t) ==
  IF LoopCond(v, t, MaxSize(v)) THEN [t EXCEPT !.pc = "encode"] ELSE AfterLoop(v, t)

\* an exception raised inside the loop: part_001 catches it and goes on to
\* the test after the loop, the others reject the promise of processFile
Thrown(v, t) ==
  IF v = V_TRY THEN AfterLoop(v, [t EXCEPT !.outcome = "error"])
  ELSE [t EXCEPT !.pc = "rejected", !.outcome = "rejected"]

StatsOnThrow(v, st, f, errorType) ==
  IF v = V_TRY
  THEN [st EXCEPT !.errors = @ + 1,
                  !.errorDetails = PushError(@, errorType, f)]
  ELSE st

LogOnThrow(v, l, f) == IF v = V_TRY THEN Logged(l, "Error processing", f) ELSE l

\* processFile up to its first encode: stat, the copy of a small input, the
\* initial quality
processFile_begin(f) ==
  LET size == img[f].size
      out == OutputPath(variant, f)
      st1 == Counted(variant, summaryStats, "totalProcessed")
      l1 == Logged(log, "Processing file", f)
      t0 == [task[f] EXCEPT !.quality = 90, !.success = FALSE,
                            !.compressedSize = IF variant = V_TRY THEN 0 ELSE size]
  IN  IF UnderTarget(size, MaxSize(variant))
      THEN /\ fs' = CopyFile(fs, img, f, out)
           /\ log' = Logged(l1, "copied without changes", f)
           /\ summaryStats' = Counted(variant, st1, "copied")
           /\ task' = [task EXCEPT ![f] = [@ EXCEPT !.pc = "done", !.outcome = "copied"]]
      ELSE /\ fs' = fs
           /\ log' = l1
           /\ summaryStats' = st1
           /\ task' = [task EXCEPT ![f] = LoopOrLeave(variant, t0)]

\* sharp(inputPath).jpeg({ quality }).toFile(tempOutputPath)
processFile_encode(f) ==
  LET t == task[f]
      tmp == TrialPath(variant, OutputPath(variant, f), t.phase, t.quality)
  IN  /\ variant \in StepVariants
      /\ t.pc = "encode"
      /\ requested' = [requested EXCEPT ![f] = Append(@, t.quality)]
      /\ IF Fails(img, f, "encode", t.quality)
         THEN /\ task' = [task EXCEPT ![f] = Thrown(variant, t)]
              /\ summaryStats' = StatsOnThrow(variant, summaryStats, f, "encode")
              /\ log' = LogOnThrow(variant, log, f)
              /\ fs' = fs
         ELSE /\ task' = [task EXCEPT ![f] = [t EXCEPT !.pc = "measure"]]
              /\ fs' = WriteFile(fs, tmp, Encoded(img, f, t.quality))
              /\ UNCHANGED <<summaryStats, log>>
      /\ UNCHANGED <<variant, tree, img, mainPc, cursor, totalFilesToProcess,
                     processedFilesCount, touched, race, run, first>>

\* fs.stat(tempOutputPath), then the rename of a fitting encode or the unlink
\* of one that is still above the target
processFile_measure(f) ==
  LET t == task[f]
      out == OutputPath(variant, f)
      tmp == TrialPath(variant, out, t.phase, t.quality)
  IN  /\ variant \in StepVariants
      /\ t.pc = "measure"
      /\ IF tmp \notin DOMAIN fs \/ Fails(img, f, "stat", t.quality)
         THEN /\ task' = [task EXCEPT ![f] = Thrown(variant, t)]
              /\ summaryStats' = StatsOnThrow(variant, summaryStats, f, "stat")
              /\ log' = LogOnThrow(variant, log, f)
              /\ fs' = fs
         ELSE LET t1 == [t EXCEPT !.compressedSize = fs[tmp].size]
              IN  IF WithinTarget(variant, t1.compressedSize, MaxSize(variant))
                  THEN IF Fails(img, f, "rename", t.quality)
                       THEN /\ task' = [task EXCEPT ![f] = Thrown(variant, t1)]
                            /\ summaryStats' = StatsOnThrow(variant, summaryStats, f, "rename")
                            /\ log' = LogOnThrow(variant, log, f)
                            /\ fs' = fs
                       ELSE LET t2 == [t1 EXCEPT !.success = TRUE, !.outcome = "compressed"]
                            IN  /\ fs' = Rename(fs, tmp, out)
                                /\ log' = Logged(log, "Now within target", f)
                                /\ summaryStats' = Counted(variant, summaryStats, "compressed")
                                /\ task' = [task EXCEPT ![f] =
                                              IF variant = V_BREAK THEN AfterLoop(variant, t2)
                                              ELSE LoopOrLeave(variant, t2)]
                  ELSE LET t2 == [t1 EXCEPT !.quality = @ - QualityStep(variant)]
                       IN  /\ fs' = Unlink(fs, tmp)
                           /\ log' = Logged(log, "Still above target", f)
                           /\ summaryStats' = summaryStats
                           /\ task' = [task EXCEPT ![f] = LoopOrLeave(variant, t2)]
      /\ UNCHANGED <<variant, tree, img, requested, mainPc, cursor, totalFilesToProcess,
                     processedFilesCount, touched, race, run, first>>

\* "if (quality === 0 ...)": no quality fitted, the original is copied
processFile_fallback(f) ==
  LET t == task[f]
  IN  /\ variant \in StepVariants
      /\ t.pc = "fallback"
      /\ log' = Logged(log, "copying original", f)
      /\ fs' = CopyFile(fs, img, f, OutputPath(variant, f))
      /\ summaryStats' = IF variant = V_BREAK
                         THEN [summaryStats EXCEPT !.errors = @ + 1] ELSE summaryStats
      /\ task' = [task EXCEPT ![f] =
                    [t EXCEPT !.pc = "done",
                              !.outcome = IF t.outcome = "error" THEN "error"
                                          ELSE "fallbackCopied"]]
      /\ UNCHANGED <<variant, tree, img, requested, mainPc, cursor, totalFilesToProcess,
                     processedFilesCount, touched, race, run, first>>


\* ------------------------------- main, processDirectory (step variants) --
ImageFiles == {f \in Files : IsImage(variant, f)}

main_countFiles ==
  /\ variant \in StepVariants
  /\ mainPc = "start"
  /\ totalFilesToProcess' = Cardinality(ImageFiles)
  /\ mainPc' = "walk"
  /\ UNCHANGED <<variant, tree, img, fs, task, requested, cursor, summaryStats, log,
                 processedFilesCount, touched, race, run, first>>

\* one entry of the for loop of processDirectory; a sub-directory is walked
\* in place, so the loop runs over the entries of the whole tree
processDirectory_entry ==
  /\ variant \in StepVariants
  /\ mainPc = "walk"
  /\ cursor <= Len(Walk)
  /\ LET f == Walk[cursor]
     IN  IF IsImage(variant, f)
         THEN /\ processFile_begin(f)
              /\ mainPc' = "inFile"
              /\ UNCHANGED <<cursor, processedFilesCount>>
         ELSE /\ IF variant = V_LOOP
                 THEN /\ processedFilesCount' = processedFilesCount + 1
                      /\ fs' = fs
                 ELSE /\ fs' = CopyFile(fs, img, f, <<f[1], f[2], f[3], "", 0>>)
                      /\ processedFilesCount' = processedFilesCount
              /\ cursor' = cursor + 1
              /\ UNCHANGED <<mainPc, task, summaryStats, log>>
  /\ UNCHANGED <<variant, tree, img, requested, totalFilesToProcess, touched, race,
                 run, first>>

\* processFile has returned: processedFilesCount++, progressBar.update
processFile_return ==
  /\ variant \in StepVariants
  /\ mainPc = "inFile"
  /\ task[Walk[cursor]].pc = "done"
  /\ processedFilesCount' = processedFilesCount + 1
  /\ cursor' = cursor + 1
  /\ mainPc' = "walk"
  /\ UNCHANGED <<variant, tree, img, fs, task, requested, summaryStats, log,
                 totalFilesToProcess, touched, race, run, first>>

\* the rejection of processFile leaves every loop of processDirectory and
\* reaches the catch of main
main_catch ==
  /\ variant \in StepVariants
  /\ mainPc = "inFile"
  /\ task[Walk[cursor]].pc = "rejected"
  /\ mainPc' = "failed"
  /\ IF variant = V_LOOP
     THEN UNCHANGED <<summaryStats, log>>
     ELSE /\ summaryStats' = [summaryStats EXCEPT !.errors = @ + 1]
          /\ log' = Logged(Logged(log, "Error processing", NoFile), "Summary", NoFile)
  /\ UNCHANGED <<variant, tree, img, fs, task, requested, cursor, totalFilesToProcess,
                 processedFilesCount, touched, race, run, first>>

main_then ==
  /\ variant \in StepVariants
  /\ mainPc = "walk"
  /\ cursor > Len(Walk)
  /\ mainPc' = "done"
  /\ log' = IF variant = V_LOOP
            THEN Logged(log, "Processing completed successfully", NoFile)
            ELSE Logged(Logged(log, "Summary", NoFile),
                        "Processing completed successfully", NoFile)
  /\ UNCHANGED <<variant, tree, img, fs, task, requested, cursor, summaryStats,
                 totalFilesToProcess, processedFilesCount, touched, race, run, first>>

\* ------------------------------------------------ processImage (part_000) --
\* processImage up to its first await
processImage_begin(t, size) ==
  IF UnderTarget(size, MaxSize(V_IMAGE))
  THEN [t EXCEPT !.pc = "done", !.outcome = "copied"]
  ELSE [t EXCEPT !.pc = "encode", !.quality = 100, !.success = FALSE]

\* forEach starts processImage on every file entry of the tree and awaits
\* none of them
processDirectory_forEach ==
  /\ variant = V_IMAGE
  /\ mainPc = "start"
  /\ mainPc' = "done"
  /\ task' = [f \in Files |-> processImage_begin(task[f], img[f].size)]
  /\ fs' = [p \in {OutputPath(variant, f) :
                     f \in {g \in Files : UnderTarget(img[g].size, MaxSize(V_IMAGE))}}
              |-> Original(img, <<p[1], p[2], p[3]>>)]
  /\ UNCHANGED <<variant, tree, img, requested, cursor, summaryStats, log,
                 totalFilesToProcess, processedFilesCount, touched, race, run, first>>

\* one turn of "while (!processed)"
processImage_encode(f) ==
  LET t == task[f]
      size == EncSize(img, f, t.quality)
  IN  /\ variant = V_IMAGE
      /\ t.pc = "encode"
      /\ Len(requested[f]) < MaxRequests
      /\ requested' = [requested EXCEPT ![f] = Append(@, t.quality)]
      /\ IF ~ValidQuality(t.quality)
         THEN /\ task' = [task EXCEPT ![f] = [t EXCEPT !.pc = "rejected",
                                                        !.outcome = "rejected"]]
              /\ fs' = fs
         ELSE IF Fails(img, f, "encode", t.quality)
         THEN UNCHANGED <<task, fs>>
         ELSE IF WithinTarget(V_IMAGE, size, MaxSize(V_IMAGE)) \/ t.quality = 1
         THEN /\ fs' = WriteFile(fs, OutputPath(variant, f), Encoded(img, f, t.quality))
              /\ task' = [task EXCEPT ![f] = [t EXCEPT !.pc = "done", !.success = TRUE,
                                                        !.compressedSize = size,
                                                        !.outcome = "compressed"]]
         ELSE /\ task' = [task EXCEPT ![f] = [t EXCEPT !.quality = @ - QualityStep(V_IMAGE)]]
              /\ fs' = fs
      /\ UNCHANGED <<variant, tree, img, mainPc, cursor, summaryStats, log,
                     totalFilesToProcess, processedFilesCount, touched, race, run, first>>


\* -------------------------------------- findOptimalCompression (index.js) --
\* a strict test that forgets the similarity floor
StrictAccept_SizeOnly(size, sim, maxSize) ==
  size * 10 <= maxSize * (10 + toleranceTenths)

\* "fileSize <= maxSize * (1 + tolerance) && currentSSIM >= minSSIM"
StrictAccept(size, sim, maxSize) ==
  size * 10 <= maxSize * (10 + toleranceTenths) /\ sim >= minSSIM

\* "fallbackFileSize <= maxSize || fallbackSSIM >= minSSIM"
FallbackAccept(size, sim, maxSize) == size <= maxSize \/ sim >= minSSIM

Accepts(phase, size, sim, maxSize) ==
  IF phase = "strict" THEN StrictAccept(size, sim, maxSize)
  ELSE FallbackAccept(size, sim, maxSize)

strictStep == 10

\* "step / 2"
fallbackStep == strictStep \div 2

\* the quality after a discarded trial, and the pass it belongs to
NextProbe(t) ==
  IF t.phase = "strict"
  THEN IF t.quality - strictStep >= qualityBoundLow
       THEN [t EXCEPT !.quality = @ - strictStep, !.pc = "encode"]
       ELSE IF qualityBoundLow + fallbackStep <= qualityBoundHigh
            THEN [t EXCEPT !.phase = "fallback", !.pc = "encode",
                           !.quality = qualityBoundLow + fallbackStep]
            ELSE [t EXCEPT !.phase = "fallback", !.pc = "done", !.outcome = "unsat",
                           !.quality = qualityBoundLow + fallbackStep]
  ELSE IF t.quality + fallbackStep <= qualityBoundHigh
       THEN [t EXCEPT !.quality = @ + fallbackStep, !.pc = "encode"]
       ELSE [t EXCEPT !.quality = @ + fallbackStep, !.pc = "done", !.outcome = "unsat"]

Rejected(t) == [t EXCEPT !.pc = "rejected", !.outcome = "rejected"]

\* the paths a task has used, and the paths two tasks in flight both used
Touch(f, p) ==
  /\ touched' = [touched EXCEPT ![f] = @ \cup {p}]
  /\ race' = IF \E g \in Files \ {f} : InFlight(g) /\ p \in touched[g]
             THEN race \cup {p} ELSE race

\* files.map(...): every search of the directory runs up to its first await
processFilesConcurrently ==
  /\ variant = V_SSIM
  /\ mainPc \in {"start", "walk"}
  /\ mainPc' = "await"
  /\ task' = [f \in Files |->
                IF f[1] = cursor /\ IsImage(variant, f)
                THEN [task[f] EXCEPT !.quality = qualityBoundHigh, !.phase = "strict",
                                     !.pc = IF qualityBoundHigh >= qualityBoundLow
                                            THEN "encode" ELSE "done"]
                ELSE task[f]]
  /\ UNCHANGED <<variant, tree, img, fs, requested, cursor, summaryStats, log,
                 totalFilesToProcess, processedFilesCount, touched, race, run, first>>

\* compressImage: sharp(...).toFile(trial), then fs.stat(trial)
compressImage(f) ==
  LET t == task[f]
      trial == TrialPath(variant, OutputPath(variant, f), t.phase, t.quality)
  IN  /\ variant = V_SSIM
      /\ t.pc = "encode"
      /\ requested' = [requested EXCEPT ![f] = Append(@, t.quality)]
      /\ Touch(f, trial)
      /\ IF Fails(img, f, "encode", t.quality)
         THEN /\ task' = [task EXCEPT ![f] = Rejected(t)]
              /\ fs' = fs
         ELSE /\ fs' = WriteFile(fs, trial, Encoded(img, f, t.quality))
              /\ task' = [task EXCEPT ![f] =
                            IF Fails(img, f, "stat", t.quality) THEN Rejected(t)
                            ELSE [t EXCEPT !.pc = "ssim"]]
      /\ UNCHANGED <<variant, tree, img, mainPc, cursor, summaryStats, log,
                     totalFilesToProcess, processedFilesCount, run, first>>

\* fs.stat(trial) and calculate_ssim(inputPath, trial)
calculate_ssim(f) ==
  LET t == task[f]
      trial == TrialPath(variant, OutputPath(variant, f), t.phase, t.quality)
  IN  /\ variant = V_SSIM
      /\ t.pc = "ssim"
      /\ Touch(f, trial)
      /\ IF trial \notin DOMAIN fs \/ Fails(img, f, "ssim", t.quality)
         THEN task' = [task EXCEPT ![f] = Rejected(t)]
         ELSE \E mismatch \in BOOLEAN :
                /\ mismatch => fs[trial].src # f
                /\ task' = [task EXCEPT ![f] =
                              IF mismatch THEN Rejected(t)
                              ELSE [t EXCEPT !.pc = "decide",
                                             !.compressedSize = fs[trial].size,
                                             !.currentSSIM = Ssim(img, f, fs[trial])]]
      /\ UNCHANGED <<variant, tree, img, fs, requested, mainPc, cursor, summaryStats, log,
                     totalFilesToProcess, processedFilesCount, run, first>>

\* the rename of an accepted trial or the unlink of a discarded one, and the
\* step to the next quality
findOptimalCompression_decide(f) ==
  LET t == task[f]
      out == OutputPath(variant, f)
      trial == TrialPath(variant, out, t.phase, t.quality)
  IN  /\ variant = V_SSIM
      /\ t.pc = "decide"
      /\ IF Accepts(t.phase, t.compressedSize, t.currentSSIM, MaxSize(variant))
         THEN /\ touched' = [touched EXCEPT ![f] = @ \cup {trial, out}]
              /\ race' = race \cup {p \in {trial, out} :
                                      \E g \in Files \ {f} : InFlight(g) /\ p \in touched[g]}
              /\ IF trial \notin DOMAIN fs \/ Fails(img, f, "rename", t.quality)
                 THEN /\ task' = [task EXCEPT ![f] = Rejected(t)]
                      /\ fs' = fs
                 ELSE /\ fs' = Rename(fs, trial, out)
                      /\ task' = [task EXCEPT ![f] = [t EXCEPT !.pc = "done", !.success = TRUE,
                                                                !.outcome = "compressed"]]
         ELSE /\ Touch(f, trial)
              /\ IF trial \notin DOMAIN fs
                 THEN /\ task' = [task EXCEPT ![f] = Rejected(t)]
                      /\ fs' = fs
                 ELSE /\ fs' = Unlink(fs, trial)
                      /\ task' = [task EXCEPT ![f] = NextProbe(t)]
      /\ UNCHANGED <<variant, tree, img, requested, mainPc, cursor, summaryStats, log,
                     totalFilesToProcess, processedFilesCount, run, first>>

\* Promise.all resolved: the sub-directories are processed next
processDirectory_recurse ==
  /\ variant = V_SSIM
  /\ mainPc = "await"
  /\ \A f \in FilesIn(cursor) : IsImage(variant, f) => task[f].pc = "done"
  /\ IF cursor < Len(tree)
     THEN /\ cursor' = cursor + 1
          /\ mainPc' = "walk"
     ELSE /\ cursor' = cursor
          /\ mainPc' = "done"
  /\ UNCHANGED <<variant, tree, img, fs, task, requested, summaryStats, log,
                 totalFilesToProcess, processedFilesCount, touched, race, run, first>>

\* Promise.all rejected: processDirectory rejects, the searches already
\* started go on
processDirectory_reject ==
  /\ variant = V_SSIM
  /\ mainPc = "await"
  /\ \E f \in FilesIn(cursor) : task[f].pc = "rejected"
  /\ mainPc' = "failed"
  /\ UNCHANGED <<variant, tree, img, fs, task, requested, cursor, summaryStats, log,
                 totalFilesToProcess, processedFilesCount, touched, race, run, first>>

\* ------------------------------------------------------ a second run ----
Quiescent == mainPc \in {"done", "failed"} /\ \A f \in Files : ~InFlight(f)

\* the script is started again on the same source tree and the target tree
\* the first run left
Rerun ==
  /\ run = 1
  /\ Quiescent
  /\ run' = 2
  /\ first' = [task |-> task, fs |-> fs]
  /\ task' = [f \in Files |-> NewTask]
  /\ requested' = [f \in Files |-> << >>]
  /\ mainPc' = "start"
  /\ cursor' = 1
  /\ summaryStats' = NewStats
  /\ log' = << >>
  /\ totalFilesToProcess' = 0
  /\ processedFilesCount' = 0
  /\ touched' = [f \in Files |-> {}]
  /\ race' = {}
  /\ UNCHANGED <<variant, tree, img, fs>>

\* ------------------------------------------------------ specification ----
Next ==
  \/ main_countFiles
  \/ processDirectory_entry
  \/ \E f \in Files : processFile_encode(f)
  \/ \E f \in Files : processFile_measure(f)
  \/ \E f \in Files : processFile_fallback(f)
  \/ processFile_return
  \/ main_catch
  \/ main_then
  \/ processDirectory_forEach
  \/ \E f \in Files : processImage_encode(f)
  \/ processFilesConcurrently
  \/ \E f \in Files : compressImage(f)
  \/ \E f \in Files : calculate_ssim(f)
  \/ \E f \in Files : findOptimalCompression_decide(f)
  \/ processDirectory_recurse
  \/ processDirectory_reject

Spec == Init /\ [][Next]_vars

NextSearch == Next \/ Rerun

SpecSearch == InitSearch /\ [][NextSearch]_vars


\* ------------------------------------------------------------ claims ----
Dest(f) == OutputPath(variant, f)

Started(f) == task[f].pc # "idle"

\* the destination holds the bytes of the input
HasOriginal(f) == Dest(f) \in DOMAIN fs /\ fs[Dest(f)] = Original(img, f)

\* the destination holds the encode of the input at quality q
HasEncoded(f, q) == Dest(f) \in DOMAIN fs /\ fs[Dest(f)] = Encoded(img, f, q)

\* the trial files of the searches that write to the destination of f
Trials(f) ==
  {p \in DOMAIN fs : IsTrialPath(p) /\ <<p[1], p[2], p[3]>> = <<Dest(f)[1], Dest(f)[2], Dest(f)[3]>>}

Accepted(f) == task[f].pc = "done" /\ task[f].outcome = "compressed"

StepGrid == {90 - 10 * k : k \in 0..8}

ImageGrid == {100 - 5 * k : k \in 0..19}

NeverFits(f) == \A q \in StepGrid : EncSize(img, f, q) > TARGET_SIZE_BYTES

NoCallFails(f) == img[f].failOp = "none"

\* C1: in the stepped processFile variants, an input of size >= maxSize whose
\* encodes at 90, 80, ..., 10 are all above maxSize, with no failing call,
\* ends with a byte-for-byte copy of the input at the destination.
C1_ExhaustedSearchCopiesOriginal ==
  \A f \in Files :
    (/\ variant \in StepVariants
     /\ img[f].size >= TARGET_SIZE_BYTES
     /\ NeverFits(f)
     /\ NoCallFails(f)
     /\ Terminated(f)) => HasOriginal(f)

\* C2: when neither pass of findOptimalCompression accepts a quality, the
\* original is copied to the destination, which therefore exists.
C2_UnsatisfiableCopiesOriginal ==
  \A f \in Files :
    (variant = V_SSIM /\ task[f].pc = "done" /\ task[f].outcome = "unsat")
      => HasOriginal(f)

\* C3: in every variant an input of size <= ceiling (the ceiling included) is
\* never encoded and ends unmodified at the destination.
C3_AtOrUnderCeilingPassesThrough ==
  \A f \in Files :
    (img[f].size <= MaxSize(variant) /\ Started(f))
      => /\ requested[f] = << >>
         /\ Terminated(f) => HasOriginal(f)

\* C4: a request that has terminated, by acceptance, exhaustion or a failed
\* call, has left exactly one file at the destination: the encode at the
\* accepted quality or a copy of the input.
C4_OneFinalOutput ==
  \A f \in Files :
    Terminated(f) => (HasOriginal(f) \/ HasEncoded(f, task[f].quality))

\* C5: once a search has terminated, accepted, unsatisfiable or aborted by a
\* failed call, none of its trial files exists.
C5_NoTrialLeftBehind ==
  \A f \in Files : Terminated(f) => Trials(f) = {}

Monotone(f) == img[f].slope >= 0

\* ceiling 2,097,152, input 5,000,000 bytes, size(q) = 5,000,000 * q / 100
Scenario(f) ==
  img[f].size = 5000000 /\ img[f].base = 0 /\ img[f].slope = 5000000 \div 100

FitsCeiling(v, size) ==
  IF v = V_IMAGE THEN size < TARGET_SIZE_BYTES ELSE size <= TARGET_SIZE_BYTES

SomeQualityMeetsBoth(f) ==
  \E q \in qualityBoundLow..qualityBoundHigh :
    /\ EncSize(img, f, q) * 10 <= maxSizeArg * 11
    /\ Ssim(img, f, Encoded(img, f, q)) >= minSSIM

\* C7: findOptimalCompression accepts no candidate of similarity below
\* minSSIM when some quality in [50, 90] meets both constraints.
C7_NoDissimilarAcceptWhenSatisfiable ==
  \A f \in Files :
    (variant = V_SSIM /\ Accepted(f) /\ SomeQualityMeetsBoth(f))
      => task[f].currentSSIM >= minSSIM

\* C8: after the attempt of one file has failed, every other image file of
\* the tree is still processed to a terminal outcome.
C8_FailureIsNotFatalToBatch ==
  (Quiescent /\ \E g \in Files : task[g].outcome \in {"rejected", "error"})
    => \A f \in ImageFiles : Terminated(f)

\* C9: no two searches in flight use the same trial or destination path.
C9_SearchesShareNoPath == race = {}

\* C10: a second run on the same input, started from the files the first run
\* left, ends with the same accepted quality, the same output size and the
\* same files at the destination.
C10_SecondRunSameResult ==
  (run = 2 /\ Quiescent) =>
    /\ \A f \in Files :
         /\ task[f].outcome = first.task[f].outcome
         /\ task[f].quality = first.task[f].quality
         /\ task[f].compressedSize = first.task[f].compressedSize
    /\ fs = first.fs

C10_Witness ==
  /\ run = 2
  /\ Quiescent
  /\ \E f \in Files : Accepted(f) /\ HasEncoded(f, task[f].quality)


\* every encode of the input, at any quality, is at or above the 2 MB ceiling
AlwaysAtOrAbove(f) == \A q \in 1..100 : EncSize(img, f, q) >= TARGET_SIZE_BYTES

\* C11: in processImage, when every encode is at or above the ceiling, the
\* descent requests no quality outside 1..100, makes a bounded number of
\* encode calls, and ends having written the encode of its last quality.
C11_DescentStopsAtLowestQuality ==
  \A f \in Files :
    (/\ variant = V_IMAGE
     /\ img[f].size >= TARGET_SIZE_BYTES
     /\ AlwaysAtOrAbove(f)
     /\ NoCallFails(f)) =>
      /\ \A i \in 1..Len(requested[f]) : requested[f][i] \in 1..100
      /\ Len(requested[f]) <= 100
      /\ Terminated(f) => HasEncoded(f, task[f].quality)

\* C12: an encode that failed at quality q is the last encode of the search:
\* no later encode is requested, at q or at any other quality.
C12_FailedEncodeIsNotRetried ==
  \A f \in Files :
    \A i \in 1..Len(requested[f]) :
      Fails(img, f, "encode", requested[f][i]) => i = Len(requested[f])


StrictGrid == {90 - 10 * k : k \in 0..4}

FallbackGrid == {55 + 5 * k : k \in 0..7}

\* the fallback test of the claim: the size constraint of the strict pass
\* (the ceiling widened by the tolerance) or the similarity floor
MeetsSizeOrSimilarity(f, q) ==
  \/ EncSize(img, f, q) * 10 <= maxSizeArg * 11
  \/ Ssim(img, f, Encoded(img, f, q)) >= minSSIM

\* C13: the fallback pass probes 55, 60, ..., 90 in increasing order and
\* accepts a probe if and only if it is the first one whose size is within
\* ceiling * (1 + tolerance) or whose similarity reaches the floor.
C13_FallbackAcceptsFirstSizeOrSimilarity ==
  \A f \in Files :
    variant = V_SSIM =>
      /\ \A i \in 1..Len(requested[f]) :
           i > Cardinality(StrictGrid) =>
             requested[f][i] = 55 + 5 * (i - Cardinality(StrictGrid) - 1)
      /\ (Accepted(f) /\ task[f].phase = "fallback") =>
           /\ MeetsSizeOrSimilarity(f, task[f].quality)
           /\ \A h \in FallbackGrid :
                h < task[f].quality => ~MeetsSizeOrSimilarity(f, h)
      /\ (task[f].pc = "done" /\ task[f].outcome = "unsat") =>
           \A h \in FallbackGrid : ~MeetsSizeOrSimilarity(f, h)


\* the conjunction of the strict pass, on the encode of f at quality q
MeetsBoth(f, q) ==
  /\ EncSize(img, f, q) * 10 <= maxSizeArg * 11
  /\ Ssim(img, f, Encoded(img, f, q)) >= minSSIM

\* C14: the strict pass probes 90, 80, ..., 50 in decreasing order; the first
\* probe meeting size and similarity is renamed to the destination and
\* returned with no encode after it; the fallback pass runs only when no
\* strict probe met both.
C14_StrictPassAcceptsFirstConjunction ==
  \A f \in Files :
    variant = V_SSIM =>
      /\ \A i \in 1..Len(requested[f]) :
           i <= Cardinality(StrictGrid) => requested[f][i] = 90 - 10 * (i - 1)
      /\ (Accepted(f) /\ task[f].phase = "strict") =>
           /\ task[f].quality \in StrictGrid
           /\ MeetsBoth(f, task[f].quality)
           /\ \A h \in StrictGrid : h > task[f].quality => ~MeetsBoth(f, h)
           /\ HasEncoded(f, task[f].quality)
           /\ Len(requested[f]) = (90 - task[f].quality) \div 10 + 1
           /\ requested[f][Len(requested[f])] = task[f].quality
      /\ task[f].phase = "fallback" => \A h \in StrictGrid : ~MeetsBoth(f, h)
      /\ (Terminated(f) /\ NoCallFails(f) /\ \E h \in StrictGrid : MeetsBoth(f, h)) =>
           Accepted(f) /\ task[f].phase = "strict"

\* a strict probe accepted after a higher one was discarded
C14_Witness ==
  \E f \in Files :
    /\ variant = V_SSIM
    /\ Accepted(f)
    /\ task[f].phase = "strict"
    /\ task[f].quality = 80
    /\ requested[f] = <<90, 80>>
    /\ HasEncoded(f, 80)


\* C15: in the size-only variants a file at the destination is a copy of the
\* input or an encode at or under the ceiling, and the accepted quality is the
\* highest probed quality whose encode is at or under the ceiling; no lower
\* quality is ever encoded.
C15_OutputFitsAndIsHighestProbed ==
  \A f \in Files :
    (variant \in SizeOnlyVariants /\ Dest(f) \in DOMAIN fs) =>
      \/ fs[Dest(f)] = Original(img, f)
      \/ /\ fs[Dest(f)] = Encoded(img, f, fs[Dest(f)].q)
         /\ fs[Dest(f)].size <= TARGET_SIZE_BYTES
         /\ Accepted(f) =>
              /\ task[f].quality = fs[Dest(f)].q
              /\ \A i \in 1..Len(requested[f]) :
                   /\ requested[f][i] >= task[f].quality
                   /\ requested[f][i] > task[f].quality =>
                        EncSize(img, f, requested[f][i]) > TARGET_SIZE_BYTES


\* C16: in processFile, the fallback copy of an input none of whose probed
\* qualities fits the ceiling, no call having failed, leaves
\* summaryStats.errors and summaryStats.errorDetails as they were.
C16_UnsatisfiableIsNotAnError ==
  [][\A f \in Files :
       (/\ variant \in StepVariants
        /\ NeverFits(f) /\ NoCallFails(f)
        /\ task[f].pc = "fallback" /\ task'[f].pc = "done") =>
         /\ summaryStats'.errors = summaryStats.errors
         /\ summaryStats'.errorDetails = summaryStats.errorDetails]_vars


Failed(f) == task[f].outcome \in {"error", "rejected"}

\* the positions of the paths recorded under errorDetails
ErrorEntries ==
  UNION {{<<e, i>> : i \in 1..Len(summaryStats.errorDetails[e])} :
           e \in DOMAIN summaryStats.errorDetails}

ErrorEntriesOf(f) ==
  {p \in ErrorEntries : summaryStats.errorDetails[p[1]][p[2]] = f}

\* the log has an error entry after the "Processing file" entry of f
ErrorLoggedAfterStartOf(f) ==
  \E i, j \in 1..Len(log) :
    /\ i < j
    /\ log[i] = <<"Processing file", f>>
    /\ log[j][1] = "Error processing"

\* C17: after the batch ends, in the variant with errorDetails
\* summaryStats.errors is the number of paths under errorDetails and each
\* failed file is recorded there once; in the processFile variants without
\* errorDetails the failure of a file is recorded in the log.
C17_NoErrorIsSwallowed ==
  (variant \in StepVariants /\ Quiescent) =>
    /\ variant = V_TRY =>
         /\ summaryStats.errors = Cardinality(ErrorEntries)
         /\ \A f \in Files :
              Cardinality(ErrorEntriesOf(f)) = IF Failed(f) THEN 1 ELSE 0
    /\ variant \in {V_BREAK, V_LOOP} =>
         \A f \in Files : Failed(f) => ErrorLoggedAfterStartOf(f)


ImageFilesIn(d) == {f \in FilesIn(d) : IsImage(variant, f)}

\* C18: the searches in flight do not grow with the number of files: of a
\* directory with two image files or more, the searches of all its files are
\* never in flight at once.
C18_InFlightSearchesAreBounded ==
  \A d \in 1..Len(tree) :
    Cardinality(ImageFilesIn(d)) >= 2 => \E f \in ImageFilesIn(d) : ~InFlight(f)


\* C19: in the variants that keep summaryStats, whenever no processFile is
\* running, totalProcessed = compressed + copied + errors.
C19_CountersPartitionProcessedFiles ==
  (variant \in {V_TRY, V_BREAK} /\ mainPc \in {"walk", "done"}) =>
    summaryStats.totalProcessed =
      summaryStats.compressed + summaryStats.copied + summaryStats.errors

\* C20: in the processFile variants processedFilesCount never exceeds
\* totalFilesToProcess once the files are counted, and the two are equal when
\* processing completes without error.
C20_ProgressNeverOverrunsTotal ==
  (variant \in StepVariants /\ mainPc # "start") =>
    /\ processedFilesCount <= totalFilesToProcess
    /\ mainPc = "done" => processedFilesCount = totalFilesToProcess

====
